---- MODULE Spec2Model ----
(***************************************************************************)
(* A model of pytoshop's PackBits codec (src/pytoshop/packbits.pyx):       *)
(* encode, decode_row, the framed decode and the prediction transforms.    *)
(*                                                                         *)
(* Each C frame is a record variable whose fields carry the source's       *)
(* names: enc is the frame of encode(), row the frame of decode_row(),     *)
(* dec the frame of decode(), pred the buffer of the prediction functions. *)
(* data is the bytes object decode_row reads through its input pointer and *)
(* out the bytes object it writes through its output pointer.  C indices   *)
(* are 0-based; the sequences holding the bytes are 1-based, so byte i of  *)
(* a buffer is element i + 1 of its sequence.                              *)
(*                                                                         *)
(* C char is taken to be signed 8-bit, as on the x86 and Apple ABIs.       *)
(***************************************************************************)
EXTENDS Integers, Sequences, FiniteSets, TLC

VARIABLES enc, row, dec, pred, data, out, faults

vars == <<enc, row, dec, pred, data, out, faults>>

(***************************************************************************)
(* Bounds of the model.                                                    *)
(***************************************************************************)
\* longest input of encode enumerated over the whole alphabet
MaxLen == 5
\* longest run segment of the long inputs of encode
MaxRun == 130
\* bytes past the end of a buffer that can be read before the process faults
MaxOverrun == 2
\* longest framed buffer enumerated over the whole byte sample
MaxData == 4
\* most samples in a prediction buffer
MaxSamples == 3
\* most rows of a channel
MaxHeight == 2

(***************************************************************************)
(* Bytes and memory.                                                       *)
(***************************************************************************)
Uninit == -1

Min(a, b) == IF a < b THEN a ELSE b

\* the value an unsigned char holds after an int is assigned to it
ToUChar(v) == v % 256

\* <char>b : the signed reading of a byte
ToChar(b) == IF b >= 128 THEN b - 256 ELSE b

\* PyBytes_FromStringAndSize(NULL, n): n bytes, not initialised
NewMem(n) == [bytes |-> [k \in 1..n |-> Uninit], oob |-> FALSE]

\* m[i] = v through a raw pointer: a store outside the object is recorded
Store(m, i, v) ==
    IF i >= 0 /\ i < Len(m.bytes)
    THEN [m EXCEPT !.bytes[i + 1] = v]
    ELSE [m EXCEPT !.oob = TRUE]

Rep(n, b) == [k \in 1..n |-> b]

Alt(n, a, b) == [k \in 1..n |-> IF k % 2 = 1 THEN a ELSE b]

RECURSIVE SeqsUpTo(_, _)
SeqsUpTo(S, n) ==
    IF n = 0 THEN {<<>>}
    ELSE LET shorter == SeqsUpTo(S, n - 1)
         IN  shorter \cup {Append(s, b) : s \in {t \in shorter : Len(t) = n - 1}, b \in S}

(***************************************************************************)
(* encode (packbits.pyx 120-229).                                          *)
(***************************************************************************)
BufferSize == 256

RleFlushLate == 127 + 1

\* the count at which the scan flushes a pending repeat run (line 189)
RleFlushAt == 127

\* the fill at which the scan flushes the pending literal buffer (line 209)
RawFlushAt == 127

\* the size of the output object allocated before the scan (line 166)
OutputAllocHalf(input_size) == input_size

OutputAlloc(input_size) == input_size * 2

\* for i in range(buffer_pos): output[output_pos[0]] = buffer[i]; output_pos[0] += 1
CopyRaw(buffer, buffer_pos, output, output_pos) ==
    [output |->
        [bytes |-> [k \in 1..Len(output.bytes) |->
                       IF k - 1 >= output_pos /\ k - 1 < output_pos + buffer_pos
                       THEN buffer.bytes[k - output_pos]
                       ELSE output.bytes[k]],
         oob |-> output.oob \/ output_pos + buffer_pos > Len(output.bytes)],
     output_pos |-> output_pos + buffer_pos]

finish_raw_keep(buffer, buffer_pos, output, output_pos) ==
    IF buffer_pos = 0
    THEN [output |-> output, output_pos |-> output_pos]
    ELSE CopyRaw(buffer, buffer_pos,
                 Store(output, output_pos, ToUChar(buffer_pos)),
                 output_pos + 1)

finish_raw(buffer, buffer_pos, output, output_pos) ==
    IF buffer_pos = 0
    THEN [output |-> output, output_pos |-> output_pos]
    ELSE CopyRaw(buffer, buffer_pos,
                 Store(output, output_pos, ToUChar(buffer_pos - 1)),
                 output_pos + 1)

finish_rle_count(input, input_pos, output, output_pos, repeat_count) ==
    Store(Store(output, output_pos, ToUChar(256 - repeat_count)),
          output_pos + 1, input[input_pos + 1])

finish_rle(input, input_pos, output, output_pos, repeat_count) ==
    Store(Store(output, output_pos, ToUChar(256 - (repeat_count - 1))),
          output_pos + 1, input[input_pos + 1])

\* the frame of encode on entry with data
EncEntry(s) ==
    [pc |-> "entry", input |-> s, input_pos |-> 0, output_pos |-> 0,
     buffer_pos |-> 0, repeat_count |-> 0, state |-> 0,
     output |-> NewMem(0), buffer |-> NewMem(0), result |-> <<>>,
     runs |-> <<>>]

\* the history of flushes: one entry per run written (kept for the claims only)
RawRun(e) == [kind |-> "raw", n |-> e.buffer_pos, at |-> e.output_pos]

RleRun(e, count) == [kind |-> "rle", n |-> count, at |-> e.output_pos]

Logged(e, r) == IF r.n = 0 THEN e.runs ELSE Append(e.runs, r)

EncodeEmpty ==
    /\ enc.pc = "entry"
    /\ Len(enc.input) = 0
    /\ enc' = [enc EXCEPT !.pc = "returned", !.result = <<>>]
    /\ UNCHANGED <<row, dec, pred, data, out, faults>>

EncodeSingle ==
    /\ enc.pc = "entry"
    /\ Len(enc.input) = 1
    /\ enc' = [enc EXCEPT !.pc = "returned", !.result = <<0>> \o enc.input]
    /\ UNCHANGED <<row, dec, pred, data, out, faults>>

EncodeAlloc ==
    /\ enc.pc = "entry"
    /\ Len(enc.input) >= 2
    /\ enc' = [enc EXCEPT !.pc = "scan",
                          !.output = NewMem(OutputAlloc(Len(enc.input))),
                          !.buffer = NewMem(BufferSize),
                          !.input_pos = 0, !.output_pos = 0, !.buffer_pos = 0,
                          !.repeat_count = 0, !.state = 0]
    /\ UNCHANGED <<row, dec, pred, data, out, faults>>

InScan == enc.pc = "scan" /\ enc.input_pos < Len(enc.input) - 1

PairMatches == enc.input[enc.input_pos + 1] = enc.input[enc.input_pos + 2]

\* lines 188-194
ScanMatchRle ==
    /\ InScan /\ PairMatches /\ enc.state = 1
    /\ LET flush == enc.repeat_count = RleFlushAt
       IN  enc' = [enc EXCEPT
                !.output = IF flush
                           THEN finish_rle(enc.input, enc.input_pos, enc.output,
                                           enc.output_pos, enc.repeat_count)
                           ELSE @,
                !.runs = IF flush THEN Logged(enc, RleRun(enc, enc.repeat_count)) ELSE @,
                !.output_pos = IF flush THEN @ + 2 ELSE @,
                !.repeat_count = (IF flush THEN 0 ELSE @) + 1,
                !.input_pos = @ + 1]
    /\ UNCHANGED <<row, dec, pred, data, out, faults>>

\* lines 195-199
ScanMatchRaw ==
    /\ InScan /\ PairMatches /\ enc.state = 0
    /\ LET f == finish_raw(enc.buffer, enc.buffer_pos, enc.output, enc.output_pos)
       IN  enc' = [enc EXCEPT
                !.output = f.output, !.output_pos = f.output_pos,
                !.runs = Logged(enc, RawRun(enc)),
                !.buffer_pos = 0, !.state = 1, !.repeat_count = 1,
                !.input_pos = @ + 1]
    /\ UNCHANGED <<row, dec, pred, data, out, faults>>

\* lines 201-207
ScanMismatchRle ==
    /\ InScan /\ ~PairMatches /\ enc.state = 1
    /\ enc' = [enc EXCEPT
            !.output = finish_rle(enc.input, enc.input_pos, enc.output,
                                  enc.output_pos, enc.repeat_count + 1),
            !.runs = Logged(enc, RleRun(enc, enc.repeat_count + 1)),
            !.output_pos = @ + 2, !.state = 0, !.repeat_count = 0,
            !.input_pos = @ + 1]
    /\ UNCHANGED <<row, dec, pred, data, out, faults>>

\* lines 208-213
ScanMismatchRaw ==
    /\ InScan /\ ~PairMatches /\ enc.state = 0
    /\ LET flush == enc.buffer_pos = RawFlushAt
           f == IF flush
                THEN finish_raw(enc.buffer, enc.buffer_pos, enc.output, enc.output_pos)
                ELSE [output |-> enc.output, output_pos |-> enc.output_pos]
           bp == IF flush THEN 0 ELSE enc.buffer_pos
       IN  enc' = [enc EXCEPT
                !.output = f.output, !.output_pos = f.output_pos,
                !.runs = IF flush THEN Logged(enc, RawRun(enc)) ELSE @,
                !.buffer = Store(enc.buffer, bp, enc.input[enc.input_pos + 1]),
                !.buffer_pos = bp + 1,
                !.input_pos = @ + 1]
    /\ UNCHANGED <<row, dec, pred, data, out, faults>>

\* lines 217-229
EncodeFinish ==
    /\ enc.pc = "scan" /\ ~(enc.input_pos < Len(enc.input) - 1)
    /\ LET rle == enc.state = 1
           buf == Store(enc.buffer, enc.buffer_pos, enc.input[enc.input_pos + 1])
           f == IF rle
                THEN [output |-> finish_rle(enc.input, enc.input_pos, enc.output,
                                            enc.output_pos, enc.repeat_count + 1),
                      output_pos |-> enc.output_pos + 2]
                ELSE finish_raw(buf, enc.buffer_pos + 1, enc.output, enc.output_pos)
       IN  enc' = [enc EXCEPT
                !.pc = "returned",
                !.repeat_count = IF rle THEN @ + 1 ELSE @,
                !.buffer = IF rle THEN @ ELSE buf,
                !.buffer_pos = IF rle THEN @ ELSE @ + 1,
                !.runs = IF rle THEN Logged(enc, RleRun(enc, enc.repeat_count + 1))
                         ELSE Logged(enc, [RawRun(enc) EXCEPT !.n = @ + 1]),
                !.output = f.output, !.output_pos = f.output_pos,
                !.result = SubSeq(f.output.bytes, 1,
                                  Min(f.output_pos, Len(f.output.bytes)))]
    /\ UNCHANGED <<row, dec, pred, data, out, faults>>

(***************************************************************************)
(* decode_row (packbits.pyx 50-71), one memory access per step.            *)
(*                                                                         *)
(* row.input and row.out_base are the offsets of the input and output      *)
(* pointers inside data and out.  A load or store outside the object is    *)
(* undefined: the process may fault there, or go on with whatever the      *)
(* neighbouring memory holds (any Garbage byte); MaxOverrun bytes past the *)
(* object the page ends and the process faults.                            *)
(***************************************************************************)
Garbage == {0, 128, 255}

RowIdle ==
    [pc |-> "idle", input |-> 0, length |-> 0, out_base |-> 0, row_bytes |-> 0,
     input_pos |-> 0, output_pos |-> 0, header_byte |-> 0, left |-> 0]

\* the frame of decode_row(&data[input], length, &out[out_base]) on entry
RowEntry(input, length, out_base, row_bytes) ==
    [RowIdle EXCEPT !.pc = "header", !.input = input, !.length = length,
                    !.out_base = out_base, !.row_bytes = row_bytes]

NextRead == row.input + row.input_pos

NextWrite == row.out_base + row.output_pos

Copying == row.pc \in {"literal", "repeat"}

ReadOutside == NextRead >= Len(data)

WriteOutside == Copying /\ NextWrite >= Len(out.bytes)

ReadValues == IF ReadOutside THEN Garbage ELSE {data[NextRead + 1]}

CanContinue == NextRead < Len(data) + MaxOverrun

ReadFaults ==
    (IF row.input_pos >= row.length THEN {"read_past_row"} ELSE {})
    \cup (IF ReadOutside THEN {"read_past_data"} ELSE {})

WriteFaults ==
    (IF row.output_pos >= row.row_bytes THEN {"write_past_row"} ELSE {})
    \cup (IF WriteOutside THEN {"write_past_output"} ELSE {})

\* the number of copies a repeat header stands for (line 68)
RepeatCountOff(header_byte) == 0 - header_byte

RepeatCount(header_byte) == 1 - header_byte

\* the number of bytes a literal header stands for (line 63)
LiteralCount(header_byte) == header_byte + 1

\* lines 58-62, 67: while input_pos < length: header_byte = <char>input[input_pos]
RowHeader ==
    /\ row.pc = "header" /\ row.input_pos < row.length
    /\ CanContinue
    /\ \E b \in ReadValues :
         LET h == ToChar(b)
         IN  row' = [row EXCEPT
                  !.header_byte = h,
                  !.input_pos = @ + 1,
                  !.pc = IF 0 <= h THEN "literal"
                         ELSE IF h # -128 THEN "repeat" ELSE "header",
                  !.left = IF 0 <= h THEN LiteralCount(h)
                           ELSE IF h # -128 THEN RepeatCount(h) ELSE 0]
    /\ faults' = faults \cup ReadFaults
    /\ UNCHANGED <<enc, dec, pred, data, out>>

\* lines 63-66
RowLiteral ==
    /\ row.pc = "literal"
    /\ CanContinue
    /\ \E b \in ReadValues : out' = Store(out, NextWrite, b)
    /\ row' = [row EXCEPT !.output_pos = @ + 1, !.input_pos = @ + 1,
                          !.left = @ - 1,
                          !.pc = IF row.left > 1 THEN "literal" ELSE "header"]
    /\ faults' = faults \cup ReadFaults \cup WriteFaults
    /\ UNCHANGED <<enc, dec, pred, data>>

\* lines 68-71
RowRepeat ==
    /\ row.pc = "repeat"
    /\ CanContinue
    /\ \E b \in ReadValues : out' = Store(out, NextWrite, b)
    /\ row' = [row EXCEPT !.output_pos = @ + 1,
                          !.left = @ - 1,
                          !.input_pos = IF row.left > 1 THEN @ ELSE @ + 1,
                          !.pc = IF row.left > 1 THEN "repeat" ELSE "header"]
    /\ faults' = faults \cup ReadFaults \cup WriteFaults
    /\ UNCHANGED <<enc, dec, pred, data>>

\* a load or store outside its object ends the process
RowFault ==
    /\ \/ row.pc = "header" /\ row.input_pos < row.length
       \/ Copying
    /\ ReadOutside \/ WriteOutside
    /\ row' = [row EXCEPT !.pc = "crashed"]
    /\ faults' = faults \cup ReadFaults \cup WriteFaults
    /\ UNCHANGED <<enc, dec, pred, data, out>>

\* line 58: the loop ends
RowReturn ==
    /\ row.pc = "header" /\ ~(row.input_pos < row.length)
    /\ row' = [row EXCEPT !.pc = "returned"]
    /\ UNCHANGED <<enc, dec, pred, data, out, faults>>

(***************************************************************************)
(* The core round trip: decode_row over encode(s), driven by the full      *)
(* length of the encoding, into a buffer of len(s) bytes.                  *)
(***************************************************************************)
DecodeEncoded ==
    /\ enc.pc = "returned" /\ row.pc = "idle"
    /\ data' = enc.result
    /\ out' = NewMem(Len(enc.input))
    /\ row' = RowEntry(0, Len(enc.result), 0, Len(enc.input))
    /\ UNCHANGED <<enc, dec, pred, faults>>

Alphabet == {0, 128, 255}

LongLens == {1, 2} \cup (126..MaxRun)

Segments ==
    {Rep(n, a) : n \in LongLens, a \in {128, 255}}
    \cup {Alt(n, p[1], p[2]) : n \in LongLens, p \in {<<128, 255>>, <<0, 127>>}}

EncInputs ==
    SeqsUpTo(Alphabet, MaxLen) \cup {s \o t : s \in Segments, t \in Segments}

DecIdle ==
    [pc |-> "idle", height |-> 0, width |-> 0, depth |-> 0, version |-> 0,
     little |-> FALSE, input |-> 0, i |-> 0, length |-> [hi |-> 0, lo |-> 0],
     done |-> {}, phase |-> "ordered", ref |-> <<>>]

PredIdle ==
    [pc |-> "idle", bits |-> 8, orig |-> <<>>, input |-> <<>>, summed |-> <<>>]

InitEnc ==
    /\ enc \in {EncEntry(s) : s \in EncInputs}
    /\ row = RowIdle
    /\ dec = DecIdle
    /\ pred = PredIdle
    /\ data = <<>>
    /\ out = NewMem(0)
    /\ faults = {}

NextEnc ==
    \/ EncodeEmpty \/ EncodeSingle \/ EncodeAlloc
    \/ ScanMatchRle \/ ScanMatchRaw \/ ScanMismatchRle \/ ScanMismatchRaw
    \/ EncodeFinish
    \/ DecodeEncoded
    \/ RowHeader \/ RowLiteral \/ RowRepeat \/ RowReturn

SpecEnc == InitEnc /\ [][NextEnc]_vars

(***************************************************************************)
(* The prediction transforms (packbits.pyx 11-47).  pred.input is the      *)
(* memoryview of unsigned char (bits = 8) or unsigned short (bits = 16).   *)
(***************************************************************************)
Pow2(bits) == IF bits = 8 THEN 256 ELSE 65536

RECURSIVE DecodeLoop(_, _, _)
\* for i in range(input.shape[0] - 1): input[i+1] += input[i]
DecodeLoop(input, i, bits) ==
    IF i >= Len(input) - 1 THEN input
    ELSE DecodeLoop([input EXCEPT ![i + 2] = (@ + input[i + 1]) % Pow2(bits)],
                    i + 1, bits)

RECURSIVE EncodeLoop(_, _, _)
\* for i in range(input.shape[0] - 1, 0, -1): input[i] -= input[i-1]
EncodeLoop(input, i, bits) ==
    IF i <= 0 THEN input
    ELSE EncodeLoop([input EXCEPT ![i + 1] = (@ - input[i]) % Pow2(bits)],
                    i - 1, bits)

RECURSIVE EncodeLoopForward(_, _, _)
EncodeLoopForward(input, i, bits) ==
    IF i >= Len(input) THEN input
    ELSE EncodeLoopForward([input EXCEPT ![i + 1] = (@ - input[i]) % Pow2(bits)],
                           i + 1, bits)

decode_prediction(input, bits) == DecodeLoop(input, 0, bits)

encode_prediction_forward(input, bits) == EncodeLoopForward(input, 1, bits)

encode_prediction(input, bits) == EncodeLoop(input, Len(input) - 1, bits)

DecodePrediction ==
    /\ pred.pc = "entry"
    /\ pred' = [pred EXCEPT !.pc = "summed",
                            !.input = decode_prediction(pred.input, pred.bits)]
    /\ UNCHANGED <<enc, row, dec, data, out, faults>>

EncodePrediction ==
    /\ pred.pc = "summed"
    /\ pred' = [pred EXCEPT !.pc = "returned",
                            !.summed = pred.input,
                            !.input = encode_prediction(pred.input, pred.bits)]
    /\ UNCHANGED <<enc, row, dec, data, out, faults>>

Samples(bits) ==
    IF bits = 8 THEN {0, 1, 127, 128, 255} ELSE {0, 1, 255, 256, 32768, 65535}

EncIdle == [EncEntry(<<>>) EXCEPT !.pc = "idle"]

InitPred ==
    /\ \E bits \in {8, 16} : \E b \in SeqsUpTo(Samples(bits), MaxSamples) :
         pred = [pc |-> "entry", bits |-> bits, orig |-> b, input |-> b,
                 summed |-> <<>>]
    /\ enc = EncIdle
    /\ row = RowIdle
    /\ dec = DecIdle
    /\ data = <<>>
    /\ out = NewMem(0)
    /\ faults = {}

NextPred == DecodePrediction \/ EncodePrediction

SpecPred == InitPred /\ [][NextPred]_vars

(***************************************************************************)
(* The framed decode (packbits.pyx 74-117).  dec.input is the offset of    *)
(* the input pointer inside data; dec.little is sys.byteorder == 'little'. *)
(***************************************************************************)
\* the bytes of a row-length entry: 2 when version == 1, 4 otherwise
FieldWidth(version) == IF version = 1 THEN 2 ELSE 4

\* An unsigned word of up to 32 bits is held as its two 16-bit halves,
\* [hi, lo], standing for hi * 65536 + lo.
Word(hi, lo) == [hi |-> hi, lo |-> lo]

\* lengths_u16[i] / lengths_u32[i]: the bytes b of the entry as the host reads them
NativeWord(b, little) ==
    IF Len(b) = 2
    THEN IF little THEN Word(0, b[1] + 256 * b[2]) ELSE Word(0, 256 * b[1] + b[2])
    ELSE IF little
         THEN Word(b[3] + 256 * b[4], b[1] + 256 * b[2])
         ELSE Word(256 * b[1] + b[2], 256 * b[3] + b[4])

\* ((x & 0xff) << 8) | ((x & 0xff00) >> 8) of a 16-bit half
SwapHalf(x) == (x % 256) * 256 + ((x \div 256) % 256)

\* line 102
Swap16(length) == Word(0, SwapHalf(length.lo))

\* lines 110-113
Swap32(length) == Word(SwapHalf(length.lo), SwapHalf(length.hi))

SwapNever(b, version, little) == NativeWord(b, little)

\* lines 100-102 and 108-113: lengths[i], swapped when need_swap
RowLength(b, version, little) ==
    LET length == NativeWord(b, little)
    IN  IF ~little THEN length
        ELSE IF version = 1 THEN Swap16(length) ELSE Swap32(length)

\* length as a size_t.  A length of 2^30 or more is held as 2^30: decode_row
\* loads every byte before input[length], and the process has faulted long
\* before, MaxOverrun bytes past data.
SizeOf(length) ==
    IF length.hi >= 16384 THEN 1073741824 ELSE length.hi * 65536 + length.lo

EntryOutside(i, version) ==
    FieldWidth(version) * (i + 1) > Len(data)

\* the values a load of the byte at offset off of data can give
ByteAt(off) == IF off < Len(data) THEN {data[off + 1]} ELSE Garbage

\* the values a load of table entry i can give: the bytes of data, and any
\* Garbage for a byte outside data
EntryBytes(i, version) ==
    LET o == FieldWidth(version) * i
    IN  IF version = 1
        THEN {<<a, b>> : a \in ByteAt(o), b \in ByteAt(o + 1)}
        ELSE {<<a, b, c, d>> : a \in ByteAt(o), b \in ByteAt(o + 1),
                               c \in ByteAt(o + 2), d \in ByteAt(o + 3)}

\* the frame of decode after lines 81-98 / 106
DecEntry(height, width, depth, version, little) ==
    [pc |-> "rows", height |-> height, width |-> width, depth |-> depth,
     version |-> version, little |-> little,
     input |-> FieldWidth(version) * height, i |-> 0, length |-> Word(0, 0),
     done |-> {}, phase |-> "ordered", ref |-> <<>>]

\* lines 99-103 / 107-114: read lengths[i] and call decode_row
DecodeRowStart ==
    /\ dec.pc = "rows" /\ row.pc = "idle" /\ dec.i < dec.height
    /\ FieldWidth(dec.version) * (dec.i + 1) <= Len(data) + MaxOverrun
    /\ \E b \in EntryBytes(dec.i, dec.version) :
         LET length == RowLength(b, dec.version, dec.little)
         IN  /\ dec' = [dec EXCEPT !.length = length]
             /\ row' = RowEntry(dec.input, SizeOf(length),
                                dec.i * dec.width * dec.depth,
                                dec.width * dec.depth)
    /\ faults' = faults \cup
         (IF EntryOutside(dec.i, dec.version) THEN {"table_past_data"} ELSE {})
    /\ UNCHANGED <<enc, pred, data, out>>

\* a load of a table entry outside data ends the process
DecodeFault ==
    /\ dec.pc = "rows" /\ row.pc = "idle" /\ dec.i < dec.height
    /\ EntryOutside(dec.i, dec.version)
    /\ dec' = [dec EXCEPT !.pc = "crashed"]
    /\ faults' = faults \cup {"table_past_data"}
    /\ UNCHANGED <<enc, row, pred, data, out>>

\* lines 104 / 115: input = &input[length]; next i
DecodeRowEnd ==
    /\ dec.pc = "rows" /\ row.pc = "returned"
    /\ dec' = [dec EXCEPT !.input = @ + SizeOf(dec.length), !.i = @ + 1]
    /\ row' = RowIdle
    /\ UNCHANGED <<enc, pred, data, out, faults>>

\* line 117
DecodeReturn ==
    /\ dec.pc = "rows" /\ row.pc = "idle" /\ ~(dec.i < dec.height)
    /\ dec' = [dec EXCEPT !.pc = "returned"]
    /\ UNCHANGED <<enc, row, pred, data, out, faults>>

\* a big-endian table entry of FieldWidth(version) bytes holding n
Entry(n, version) ==
    IF version = 1 THEN <<(n \div 256) % 256, n % 256>>
    ELSE <<(n \div 16777216) % 256, (n \div 65536) % 256, (n \div 256) % 256, n % 256>>

RowSamples == {<<>>, <<128>>, <<0, 7>>, <<255, 7>>, <<254, 9>>, <<1, 7, 9>>}

RECURSIVE Flatten(_)
Flatten(ss) == IF ss = <<>> THEN <<>> ELSE Head(ss) \o Flatten(Tail(ss))

\* a channel buffer: the table of the rows' lengths, then the rows
Channel(rows, version) ==
    Flatten([k \in 1..Len(rows) |-> Entry(Len(rows[k]), version)]) \o Flatten(rows)

ByteSample == {0, 1, 128, 255}

\* 256 no-op headers behind the table entry [0x01, 0x00]
LongRow == Entry(256, 1) \o Rep(256, 128)

InitFramed ==
    /\ \E version \in {1, 2}, little \in BOOLEAN, width \in 1..2 :
         \/ \E height \in 1..MaxHeight :
              /\ data \in SeqsUpTo(ByteSample, MaxData)
              /\ dec = DecEntry(height, width, 1, version, little)
              /\ out = NewMem(height * width)
         \/ \E rows \in [1..MaxHeight -> RowSamples], depth \in 1..2 :
              /\ data = Channel(rows, version)
              /\ dec = DecEntry(MaxHeight, width, depth, version, little)
              /\ out = NewMem(MaxHeight * width * depth)
         \/ /\ version = 1 /\ width = 1
            /\ data = LongRow
            /\ dec = DecEntry(1, width, 1, version, little)
            /\ out = NewMem(width)
    /\ enc = EncIdle
    /\ row = RowIdle
    /\ pred = PredIdle
    /\ faults = {}

NextFramed ==
    \/ DecodeRowStart \/ DecodeFault \/ DecodeRowEnd \/ DecodeReturn
    \/ RowHeader \/ RowLiteral \/ RowRepeat \/ RowFault \/ RowReturn

SpecFramed == InitFramed /\ [][NextFramed]_vars

(***************************************************************************)
(* The rows of a channel decoded one at a time in any order, each by the   *)
(* call decode makes for it (lines 100-103 / 108-114): first in row order, *)
(* keeping the result in dec.ref, then again in an order of the caller's   *)
(* choice.                                                                 *)
(***************************************************************************)
\* the bytes of table entry j, which lies inside data
EntryIn(j, version) ==
    SubSeq(data, FieldWidth(version) * j + 1, FieldWidth(version) * (j + 1))

RECURSIVE RowOffset(_)
\* the input pointer when row i is decoded: lines 98 / 106, then 104 / 115 per row
RowOffset(i) ==
    IF i = 0 THEN FieldWidth(dec.version) * dec.height
    ELSE RowOffset(i - 1)
         + SizeOf(RowLength(EntryIn(i - 1, dec.version), dec.version, dec.little))

AllRows == 0..(dec.height - 1)

RowsStart ==
    /\ dec.pc = "rows" /\ row.pc = "idle"
    /\ \E i \in AllRows \ dec.done :
         /\ dec.phase = "ordered" => i = Cardinality(dec.done)
         /\ LET length == RowLength(EntryIn(i, dec.version), dec.version, dec.little)
            IN  /\ dec' = [dec EXCEPT !.i = i, !.length = length,
                                      !.input = RowOffset(i)]
                /\ row' = RowEntry(RowOffset(i), SizeOf(length),
                                   i * dec.width * dec.depth,
                                   dec.width * dec.depth)
    /\ UNCHANGED <<enc, pred, data, out, faults>>

RowsEnd ==
    /\ dec.pc = "rows" /\ row.pc = "returned"
    /\ dec' = [dec EXCEPT !.done = @ \cup {dec.i}]
    /\ row' = RowIdle
    /\ UNCHANGED <<enc, pred, data, out, faults>>

\* the row-order pass is over: keep its output, start again on a fresh buffer
RowsAgain ==
    /\ dec.pc = "rows" /\ row.pc = "idle"
    /\ dec.phase = "ordered" /\ dec.done = AllRows
    /\ dec' = [dec EXCEPT !.phase = "any", !.done = {}, !.ref = out.bytes]
    /\ out' = NewMem(dec.height * dec.width * dec.depth)
    /\ UNCHANGED <<enc, row, pred, data, faults>>

RowsReturn ==
    /\ dec.pc = "rows" /\ row.pc = "idle"
    /\ dec.phase = "any" /\ dec.done = AllRows
    /\ dec' = [dec EXCEPT !.pc = "returned"]
    /\ UNCHANGED <<enc, row, pred, data, out, faults>>

InitRows ==
    /\ \E version \in {1, 2}, little \in BOOLEAN, width \in 1..2, depth \in 1..2 :
         \E rows \in [1..MaxHeight -> RowSamples] :
              /\ data = Channel(rows, version)
              /\ dec = DecEntry(MaxHeight, width, depth, version, little)
              /\ out = NewMem(MaxHeight * width * depth)
    /\ enc = EncIdle
    /\ row = RowIdle
    /\ pred = PredIdle
    /\ faults = {}

NextRows ==
    \/ RowsStart \/ RowsEnd \/ RowsAgain \/ RowsReturn
    \/ RowHeader \/ RowLiteral \/ RowRepeat \/ RowFault \/ RowReturn

SpecRows == InitRows /\ [][NextRows]_vars

(***************************************************************************)
(* Properties of encode and of the core round trip (under SpecEnc).        *)
(***************************************************************************)
Encoded == enc.pc = "returned" /\ row.pc = "idle"

AllEqual(s) == \A k \in 1..Len(s) : s[k] = s[1]

NoAdjacentEqual(s) == \A k \in 1..(Len(s) - 1) : s[k] # s[k + 1]

\* the header byte encode wrote for run r
HeaderOf(r) == enc.output.bytes[r.at + 1]

\* the bytes encode wrote after the header of literal run r
LiteralOf(r) == SubSeq(enc.output.bytes, r.at + 2, r.at + 1 + r.n)

RECURSIVE InputBefore(_)
\* the number of input bytes covered by the first k runs
InputBefore(k) == IF k = 0 THEN 0 ELSE InputBefore(k - 1) + enc.runs[k].n

\* the run that covers input byte p (0-based)
RunCovering(p) ==
    CHOOSE k \in 1..Len(enc.runs) : InputBefore(k - 1) <= p /\ p < InputBefore(k)

\* C1: decode_row over encode(s), driven by the full length of encode(s),
\* writes exactly len(s) bytes, all inside the len(s)-byte buffer, equal to s
C1_RoundTrip ==
    /\ ~out.oob
    /\ row.pc = "returned" =>
         /\ row.output_pos = Len(enc.input)
         /\ out.bytes = enc.input

C1_Witness ==
    /\ row.pc = "returned"
    /\ Len(enc.input) > 2 * 128
    /\ Len(enc.runs) >= 3
    /\ out.bytes = enc.input

C1_WitnessShort ==
    /\ row.pc = "returned"
    /\ Len(enc.input) <= 1
    /\ out.bytes = enc.input

\* C6: 128 identical bytes b encode to [0x81, b]; 128 bytes with no two
\* adjacent equal encode to 0x7F followed by the bytes; 129 such bytes
\* (identical, or no two adjacent equal) encode to more than one run
C6_BoundaryRuns ==
    Encoded =>
      /\ Len(enc.input) = 128 /\ AllEqual(enc.input)
           => enc.result = <<129, enc.input[1]>>
      /\ Len(enc.input) = 128 /\ NoAdjacentEqual(enc.input)
           => enc.result = <<127>> \o enc.input
      /\ Len(enc.input) = 129 /\ (AllEqual(enc.input) \/ NoAdjacentEqual(enc.input))
           => /\ Len(enc.runs) > 1
              /\ InputBefore(Len(enc.runs)) = 129

C6_WitnessRepeat == Encoded /\ Len(enc.input) = 128 /\ AllEqual(enc.input)

C6_WitnessLiteral == Encoded /\ Len(enc.input) = 128 /\ NoAdjacentEqual(enc.input)

C6_Witness ==
    Encoded /\ Len(enc.input) = 129 /\ NoAdjacentEqual(enc.input) /\ Len(enc.runs) = 2

\* C7: adjacent equal input bytes are both emitted inside repeat runs; no
\* literal run holds two adjacent equal bytes; an isolated pair is a repeat
\* run of 2 with header 0xFF; every repeat run has a count in 2..128 and the
\* header 257 - count, in 0x81..0xFF
C7_TieBreak ==
    /\ \A k \in 1..Len(enc.runs) :
         LET r == enc.runs[k]
         IN  /\ r.kind = "rle" =>
                  /\ r.n \in 2..128
                  /\ HeaderOf(r) \in 129..255
                  /\ HeaderOf(r) = 257 - r.n
             /\ r.kind = "raw" =>
                  /\ HeaderOf(r) = r.n - 1
                  /\ NoAdjacentEqual(LiteralOf(r))
    /\ Encoded /\ Len(enc.input) >= 2 =>
         \A p \in 0..(Len(enc.input) - 2) :
           enc.input[p + 1] = enc.input[p + 2] =>
             /\ enc.runs[RunCovering(p)].kind = "rle"
             /\ enc.runs[RunCovering(p + 1)].kind = "rle"
             /\ /\ p = 0 \/ enc.input[p] # enc.input[p + 1]
                /\ p + 2 = Len(enc.input) \/ enc.input[p + 3] # enc.input[p + 2]
                => /\ RunCovering(p) = RunCovering(p + 1)
                   /\ InputBefore(RunCovering(p) - 1) = p
                   /\ enc.runs[RunCovering(p)].n = 2
                   /\ HeaderOf(enc.runs[RunCovering(p)]) = 255

C7_Witness ==
    /\ Encoded
    /\ Len(enc.input) = 4
    /\ enc.input[1] # enc.input[2]
    /\ enc.input[2] = enc.input[3]
    /\ enc.input[3] # enc.input[4]
    /\ Len(enc.runs) = 3

LongUniform ==
    /\ Encoded
    /\ Len(enc.input) > 128
    /\ AllEqual(enc.input) \/ NoAdjacentEqual(enc.input)

\* C9 as stated: the pending run is flushed when it reaches 128, so the
\* first run of a long uniform input covers exactly 128 input bytes
C9_FlushAt128 == LongUniform => enc.runs[1].n = 128

\* C9 as amended: during the scan a pending run never exceeds 127; it is
\* flushed at 127 (headers 0x82 and 0x7E) when the scan goes on, so the
\* first run of a long uniform input covers exactly 127 input bytes
C9_FlushAt127 ==
    /\ enc.pc = "scan" => enc.repeat_count <= 127 /\ enc.buffer_pos <= 127
    /\ LongUniform =>
         /\ enc.runs[1].n = 127
         /\ HeaderOf(enc.runs[1]) = IF AllEqual(enc.input) THEN 130 ELSE 126

C9_Witness ==
    /\ LongUniform
    /\ AllEqual(enc.input)
    /\ Len(enc.input) = 129
    /\ enc.result = <<130, enc.input[1], 255, enc.input[1]>>

\* C10: for an input of n >= 2 bytes every byte encode writes lands inside
\* the 2*n-byte output object, the cursor never passes 2*n, and the
\* encoding returned has at most 2*n bytes
C10_OutputBound ==
    Len(enc.input) >= 2 =>
      /\ ~enc.output.oob
      /\ enc.output_pos <= 2 * Len(enc.input)
      /\ Len(enc.result) <= 2 * Len(enc.input)

C10_Witness ==
    /\ Encoded
    /\ Len(enc.input) >= 2
    /\ enc.output_pos > Len(enc.input)
    /\ Len(enc.result) = enc.output_pos

(***************************************************************************)
(* Properties of the prediction transforms (under SpecPred).               *)
(***************************************************************************)
\* C4: decode_prediction followed by encode_prediction restores the buffer,
\* for 8-bit and for 16-bit samples, and neither changes its length
C4_PredictionRoundTrip ==
    /\ Len(pred.input) = Len(pred.orig)
    /\ pred.pc = "returned" => pred.input = pred.orig

C4_Witness ==
    /\ pred.pc = "returned"
    /\ pred.bits = 16
    /\ Len(pred.orig) = 3
    /\ pred.orig[1] + pred.orig[2] >= 65536
    /\ pred.summed[2] = pred.orig[1] + pred.orig[2] - 65536
    /\ pred.summed # pred.orig
    /\ pred.input = pred.orig

C4_Witness8 ==
    /\ pred.pc = "returned"
    /\ pred.bits = 8
    /\ Len(pred.orig) = 3
    /\ pred.orig[1] + pred.orig[2] >= 256
    /\ pred.summed[2] = pred.orig[1] + pred.orig[2] - 256
    /\ pred.input = pred.orig

(***************************************************************************)
(* Properties of the framed decode (under SpecFramed and SpecRows).        *)
(***************************************************************************)
RowBounds == {"read_past_row", "write_past_row", "read_past_data", "write_past_output"}

\* C2: while a row is decoded no byte is loaded at or beyond the row's
\* declared length and no byte is stored outside the row's slice of the
\* output
C2_RowBoundsSafe == faults \cap RowBounds = {}

TableTruncated ==
    dec.pc # "idle"
    /\ Len(data) < (IF dec.version = 1 THEN 2 ELSE 4) * dec.height

RowTruncated ==
    /\ dec.pc # "idle" /\ row.pc # "idle"
    /\ dec.input + row.length > Len(data)

\* C3: given fewer bytes than the table, or a table entry larger than the
\* bytes left after the cursor, decode loads no byte outside data and does
\* not return a result
C3_RejectsTruncated ==
    TableTruncated \/ RowTruncated =>
      /\ faults \cap {"table_past_data", "read_past_data"} = {}
      /\ dec.pc # "returned"

\* the big-endian value of the bytes b of a table entry
BigEndian(b) ==
    IF Len(b) = 2 THEN Word(0, 256 * b[1] + b[2])
    ELSE Word(256 * b[1] + b[2], 256 * b[3] + b[4])

\* the bytes of table entry j: 2 when version == 1, 4 otherwise
C5_Entry(j) ==
    LET fw == IF dec.version = 1 THEN 2 ELSE 4
    IN  SubSeq(data, fw * j + 1, fw * j + fw)

RECURSIVE C5_RowStart(_)
C5_RowStart(j) ==
    IF j = 0 THEN (IF dec.version = 1 THEN 2 ELSE 4) * dec.height
    ELSE C5_RowStart(j - 1) + SizeOf(BigEndian(C5_Entry(j - 1)))

C5_RowCalled ==
    /\ dec.pc = "rows" /\ row.pc # "idle"
    /\ (IF dec.version = 1 THEN 2 ELSE 4) * (dec.i + 1) <= Len(data)

\* C5: the length of row i is the big-endian value of its 2 (version 1) or 4
\* bytes of the table on little-endian and big-endian hosts alike; row 0
\* starts right after the table and row i + 1 length[i] bytes after row i
C5_BigEndianLengths ==
    C5_RowCalled =>
      /\ dec.length = BigEndian(C5_Entry(dec.i))
      /\ row.length = SizeOf(dec.length)
      /\ row.input = C5_RowStart(dec.i)

C5_Witness ==
    /\ C5_RowCalled
    /\ dec.little /\ dec.version = 1 /\ dec.i = 0
    /\ C5_Entry(0) = <<1, 0>>
    /\ row.length = 256
    /\ row.pc = "returned"

C5_WitnessSecondRow ==
    /\ C5_RowCalled
    /\ dec.little /\ dec.version = 2 /\ dec.i = 1
    /\ C5_Entry(0) = <<0, 0, 0, 3>>
    /\ row.input = 11
    /\ row.length = 2

C5_WitnessBigHost ==
    /\ C5_RowCalled
    /\ ~dec.little /\ dec.version = 1
    /\ C5_Entry(0) = <<1, 0>>
    /\ row.length = 256

\* C8: decoding the rows in any order leaves the output that decoding them
\* in row order leaves
C8_OrderIndependent == dec.pc = "returned" => out.bytes = dec.ref

====
